---------------------------- MODULE Spec2Model ----------------------------
(* tools/install-vcpkg.py: clone vcpkg next to the script when the        *)
(* directory is missing, then run the platform's bootstrap script.        *)
(* The model follows the script line by line over a sequence of runs on   *)
(* one host, with the two child processes (git, bootstrap) as environment *)
(* steps that pick their own return code.                                 *)
EXTENDS Integers, Sequences, FiniteSets, TLC

(* ------------------------------ bounds -------------------------------- *)

\* number of sequential runs of the script that are explored
MaxRuns == 3
\* child processes return 0..MaxExit, or -9 when killed by a signal
MaxExit == 2

ReturnCodes == (0..MaxExit) \cup {-9}

(* --------------------------- the environment -------------------------- *)

\* what platform.system() answers on the host and the os.sep of its Python
Hosts ==
    { [system |-> "Windows",        sep |-> "\\"],
      [system |-> "Linux",          sep |-> "/"],
      [system |-> "Darwin",         sep |-> "/"],
      [system |-> "CYGWIN_NT-10.0", sep |-> "/"],
      [system |-> "windows",        sep |-> "/"],
      [system |-> "",               sep |-> "/"] }

\* where the script lives on the host: <root><sep><sub><sep><tail>
ScriptFiles(h) ==
    IF h.sep = "\\"
    THEN { [root |-> "C:\\repo",           sub |-> "tools",
            tail |-> "install-vcpkg.py"],
           [root |-> "D:\\src\\sqlitemap", sub |-> "tools",
            tail |-> "install-vcpkg.py"] }
    ELSE { [root |-> "/repo",               sub |-> "tools",
            tail |-> "install-vcpkg.py"],
           [root |-> "/home/dev/sqlitemap", sub |-> "tools",
            tail |-> "install-vcpkg.py"] }

\* the ways the interpreter is started on script file f: the working
\* directory and __file__, a path kept split in (directory, file name)
Invocations(h, f) ==
    { [cwd  |-> f.root,
       file |-> [isabs |-> TRUE, head |-> f.root \o h.sep \o f.sub,
                 tail |-> f.tail]],
      [cwd  |-> f.root,
       file |-> [isabs |-> FALSE, head |-> f.sub, tail |-> f.tail]],
      [cwd  |-> f.root \o h.sep \o f.sub,
       file |-> [isabs |-> FALSE, head |-> "", tail |-> f.tail]] }

\* what is found on disk at <script_dir>/vcpkg
\*   absent  : nothing
\*   file    : something that is not a directory
\*   partial : a directory that is not a complete checkout
\*   dir     : a complete checkout
FsKinds == {"absent", "file", "partial", "dir"}

VARIABLES
    host,             \* the machine: platform.system() and os.sep
    script,           \* location of the script on the host
    invocation,       \* working directory and __file__ of the current run
    fs,               \* kind of <script_dir>/vcpkg on disk
    runs,             \* number of the current run, 1..MaxRuns
    pc,               \* next line of the script to execute
    tools_dir,        \* line 7
    vcpkg_dir,        \* line 8
    system_platform,  \* line 16
    bootstrap_script, \* lines 19/21
    calls,            \* the subprocess.check_call invocations of this run
    exitCode,         \* exit status of the interpreter, once pc = "exit"
    startFs,          \* fs when the current run started
    everPresent,      \* some run saw the directory or cloned it successfully
    cloneCalls,       \* clone invocations over all runs
    okClones,         \* clones that returned 0, over all runs
    leftPartial       \* a failed clone left a partial directory behind

vars == << host, script, invocation, fs, runs, pc, tools_dir, vcpkg_dir,
           system_platform, bootstrap_script, calls, exitCode, startFs, everPresent,
           cloneCalls, okClones, leftPartial >>

env   == << host, script >>
local == << invocation, tools_dir, vcpkg_dir, system_platform,
           bootstrap_script >>
hist  == << startFs, everPresent, cloneCalls, okClones, leftPartial >>

(* ----------------------------- pure helpers --------------------------- *)

\* os.path.join of a directory and a relative name
Join(a, b) == a \o host.sep \o b

\* os.path.abspath: a relative path is resolved against the working
\* directory
Abspath(cwd, f) ==
    IF f.isabs
    THEN f
    ELSE [isabs |-> TRUE,
          head  |-> IF f.head = "" THEN cwd ELSE Join(cwd, f.head),
          tail  |-> f.tail]

\* os.path.dirname
Dirname(p) == p.head

\* os.path.isfile in the place of os.path.isdir
IsFile(kind) == kind = "file"

\* a test for a complete checkout in the place of os.path.isdir
IsCompleteCheckout(kind) == kind = "dir"

\* os.path.isdir
IsDir(kind) == kind \in {"partial", "dir"}

CloneUrl == "https://github.com/Microsoft/vcpkg.git"

\* argument vector of line 13
CloneArgv(dir) == << "git", "clone", CloneUrl, dir >>

\* lines 18-21 with a comparison that ignores the case of the identifier
BootstrapScriptAnyCase(platform, dir) ==
    IF platform \in {"Windows", "windows"}
    THEN Join(dir, "bootstrap-vcpkg.bat")
    ELSE Join(dir, "bootstrap-vcpkg.sh")

\* lines 18-21
BootstrapScript(platform, dir) ==
    IF platform = "Windows"
    THEN Join(dir, "bootstrap-vcpkg.bat")
    ELSE Join(dir, "bootstrap-vcpkg.sh")

\* line 25 without the flag
BootstrapArgvBare(cmd) == << cmd >>

\* argument vector of line 25
BootstrapArgv(cmd) == << cmd, "-disableMetrics" >>

\* sys.exit(e.returncode) in a handler around check_call
PropagateExit(rc) == rc

\* exit status of the interpreter when check_call's CalledProcessError (or
\* the OSError of a child that could not be started) is not caught
UncaughtExit(rc) == 1

Last(s) == s[Len(s)]

(* ------------------------------- Init --------------------------------- *)

Init ==
    /\ host \in Hosts
    /\ script \in ScriptFiles(host)
    /\ invocation \in Invocations(host, script)
    /\ fs \in FsKinds
    /\ runs = 1
    /\ pc = "l7"
    /\ tools_dir = ""
    /\ vcpkg_dir = ""
    /\ system_platform = ""
    /\ bootstrap_script = ""
    /\ calls = << >>
    /\ exitCode = 0
    /\ startFs = fs
    /\ everPresent = FALSE
    /\ cloneCalls = 0
    /\ okClones = 0
    /\ leftPartial = FALSE

(* ------------------------------ the script ---------------------------- *)

\* lines 7-8 with os.path.dirname(__file__), no abspath
ComputePathsNoAbspath ==
    /\ pc = "l7"
    /\ tools_dir' = Dirname(invocation.file)
    /\ vcpkg_dir' = Join(tools_dir', "vcpkg")
    /\ pc' = "l11"
    /\ UNCHANGED << env, invocation, fs, runs, system_platform,
                    bootstrap_script, calls, exitCode, hist >>

\* lines 7-8
ComputePaths ==
    /\ pc = "l7"
    /\ tools_dir' = Dirname(Abspath(invocation.cwd, invocation.file))
    /\ vcpkg_dir' = Join(tools_dir', "vcpkg")
    /\ pc' = "l11"
    /\ UNCHANGED << env, invocation, fs, runs, system_platform,
                    bootstrap_script, calls, exitCode, hist >>

\* line 11 with an early exit when the directory is there
CheckDirEarlyExit ==
    /\ pc = "l11"
    /\ pc' = IF ~IsDir(fs) THEN "l13" ELSE "exit"
    /\ everPresent' = (everPresent \/ fs \in {"partial", "dir"})
    /\ UNCHANGED << env, fs, runs, local, calls, exitCode, startFs,
                    cloneCalls, okClones, leftPartial >>

\* line 11
CheckDir ==
    /\ pc = "l11"
    /\ pc' = IF ~IsDir(fs) THEN "l13" ELSE "l16"
    /\ everPresent' = (everPresent \/ fs \in {"partial", "dir"})
    /\ UNCHANGED << env, fs, runs, local, calls, exitCode, startFs,
                    cloneCalls, okClones, leftPartial >>

\* subprocess.check_call, first half: start the child and wait for it
\* (pc moves to waitpc), or fail to start it (OSError, not caught)
Spawn(line, argv, canStart, waitpc) ==
    \/ /\ canStart
       /\ calls' = Append(calls, [line |-> line, argv |-> argv,
                                  status |-> "running", rc |-> 0])
       /\ pc' = waitpc
       /\ UNCHANGED exitCode
    \/ /\ calls' = Append(calls, [line |-> line, argv |-> argv,
                                  status |-> "oserror", rc |-> 0])
       /\ pc' = "exit"
       /\ exitCode' = UncaughtExit(0)

\* subprocess.check_call, second half: the child has exited; return when
\* its return code is 0, raise CalledProcessError otherwise (not caught)
CheckReturn(waitpc, nextpc, endCode) ==
    /\ pc = waitpc
    /\ calls # << >>
    /\ Last(calls).status = "exited"
    /\ IF Last(calls).rc = 0
       THEN /\ pc' = nextpc
            /\ exitCode' = endCode
       ELSE /\ pc' = "exit"
            /\ exitCode' = UncaughtExit(Last(calls).rc)

\* line 13 with subprocess.Popen: the child is started and not waited for
CloneCallNoWait ==
    /\ pc = "l13"
    /\ Spawn(13, CloneArgv(vcpkg_dir), TRUE, "l16")
    /\ cloneCalls' = cloneCalls + 1
    /\ UNCHANGED << env, fs, runs, local, startFs, everPresent, okClones,
                    leftPartial >>

\* line 13, the call
CloneCall ==
    /\ pc = "l13"
    /\ Spawn(13, CloneArgv(vcpkg_dir), TRUE, "l13_wait")
    /\ cloneCalls' = cloneCalls + 1
    /\ UNCHANGED << env, fs, runs, local, startFs, everPresent, okClones,
                    leftPartial >>

\* the git child of line 13 runs to its end
GitCloneExits ==
    \E i \in DOMAIN calls, rc \in ReturnCodes, left \in {"absent", "partial"} :
        /\ calls[i].line = 13
        /\ calls[i].status = "running"
        /\ IF calls[i].argv[4] = vcpkg_dir /\ fs = "absent"
           THEN \* a fresh destination: a checkout on success; on failure
                \* nothing, or what the interrupted clone had written
                fs' = IF rc = 0 THEN "dir" ELSE left
           ELSE \* git refuses a destination that exists and is not empty
                /\ calls[i].argv[4] = vcpkg_dir => rc # 0
                /\ left = "absent"
                /\ fs' = fs
        /\ calls' = [calls EXCEPT ![i].status = "exited", ![i].rc = rc]
        /\ okClones' = IF rc = 0 THEN okClones + 1 ELSE okClones
        /\ everPresent' = (everPresent \/ fs' = "dir")
        /\ leftPartial' = (leftPartial \/ (fs = "absent" /\ fs' = "partial"))
        /\ UNCHANGED << env, runs, pc, local, exitCode, startFs, cloneCalls >>

\* line 13 with subprocess.call: the return code is not looked at
CloneReturnIgnoreRc ==
    /\ pc = "l13_wait"
    /\ calls # << >>
    /\ Last(calls).status = "exited"
    /\ pc' = "l16"
    /\ UNCHANGED << env, fs, runs, local, calls, exitCode, hist >>

\* line 13 with a handler that removes the directory when the clone failed
CloneReturnCleanup ==
    /\ CheckReturn("l13_wait", "l16", exitCode)
    /\ fs' = IF Last(calls).rc # 0 /\ fs = "partial" THEN "absent" ELSE fs
    /\ UNCHANGED << env, runs, local, calls, hist >>

\* line 13, the return
CloneReturn ==
    /\ CheckReturn("l13_wait", "l16", exitCode)
    /\ UNCHANGED << env, fs, runs, local, calls, hist >>

\* line 16
PlatformSystem ==
    /\ pc = "l16"
    /\ system_platform' = host.system
    /\ pc' = "l18"
    /\ UNCHANGED << env, invocation, fs, runs, tools_dir, vcpkg_dir,
                    bootstrap_script, calls, exitCode, hist >>

\* lines 18-21
SelectBootstrap ==
    /\ pc = "l18"
    /\ bootstrap_script' = BootstrapScript(system_platform, vcpkg_dir)
    /\ pc' = "l25"
    /\ UNCHANGED << env, invocation, fs, runs, tools_dir, vcpkg_dir,
                    system_platform, calls, exitCode, hist >>

\* line 25, the call; the script can only be started from a directory
BootstrapCall ==
    /\ pc = "l25"
    /\ Spawn(25, BootstrapArgv(bootstrap_script), fs \in {"partial", "dir"},
             "l25_wait")
    /\ UNCHANGED << env, fs, runs, local, hist >>

\* the bootstrap child of line 25 runs to its end
BootstrapExits ==
    \E i \in DOMAIN calls, rc \in ReturnCodes :
        /\ calls[i].line = 25
        /\ calls[i].status = "running"
        /\ calls' = [calls EXCEPT ![i].status = "exited", ![i].rc = rc]
        /\ UNCHANGED << env, fs, runs, pc, local, exitCode, hist >>

\* line 25, the return; the end of the script exits with status 0
BootstrapReturn ==
    /\ CheckReturn("l25_wait", "exit", 0)
    /\ UNCHANGED << env, fs, runs, local, calls, hist >>

\* the script is started again on the same host
StartRun ==
    /\ pc = "exit"
    /\ runs < MaxRuns
    /\ \A i \in DOMAIN calls : calls[i].status # "running"
    /\ runs' = runs + 1
    /\ invocation' \in Invocations(host, script)
    /\ pc' = "l7"
    /\ tools_dir' = ""
    /\ vcpkg_dir' = ""
    /\ system_platform' = ""
    /\ bootstrap_script' = ""
    /\ calls' = << >>
    /\ exitCode' = 0
    /\ startFs' = fs
    /\ UNCHANGED << env, fs, everPresent, cloneCalls, okClones, leftPartial >>

Next ==
    \/ ComputePaths
    \/ CheckDir
    \/ CloneCall
    \/ GitCloneExits
    \/ CloneReturn
    \/ PlatformSystem
    \/ SelectBootstrap
    \/ BootstrapCall
    \/ BootstrapExits
    \/ BootstrapReturn
    \/ StartRun

Spec == Init /\ [][Next]_vars

(* ------------------------ what the claims speak of -------------------- *)

\* <script_dir> and <script_dir>/vcpkg, from where the script is on disk
ScriptDir == script.root \o host.sep \o script.sub
TargetDir == ScriptDir \o host.sep \o "vcpkg"
BatPath   == TargetDir \o host.sep \o "bootstrap-vcpkg.bat"
ShPath    == TargetDir \o host.sep \o "bootstrap-vcpkg.sh"

\* the invocations of this run made by the given line of the script
CallsAt(line) == { i \in DOMAIN calls : calls[i].line = line }

Succeeded(c) == c.status = "exited" /\ c.rc = 0
Failed(c)    == c.status = "oserror" \/ (c.status = "exited" /\ c.rc # 0)

IsDirectory(kind) == kind \in {"partial", "dir"}

CloneExitedNonZero ==
    \E i \in CallsAt(13) : calls[i].status = "exited" /\ calls[i].rc # 0

CloneStepFailed == \E i \in CallsAt(13) : Failed(calls[i])

\* C1: a run that starts with <script_dir>/vcpkg existing as a directory
\* never invokes git clone, whatever the platform and whatever the bootstrap
\* does.
C1_NoCloneWhenDirExists ==
    startFs \in {"partial", "dir"} => CallsAt(13) = {}

C1_Witness ==
    /\ startFs \in {"partial", "dir"}
    /\ pc = "exit"
    /\ \E i \in CallsAt(25) : calls[i].status = "exited" /\ calls[i].rc # 0

\* C2: a run that starts with the target directory absent invokes clone
\* exactly once, with the fixed URL and <script_dir>/vcpkg as destination.
C2_ExactlyOneClone ==
    startFs \in {"absent", "file"} =>
        /\ Cardinality(CallsAt(13)) <= 1
        /\ pc \notin {"l7", "l11", "l13"} => Cardinality(CallsAt(13)) = 1
        /\ \A i \in CallsAt(13) :
              calls[i].argv = << "git", "clone",
                                 "https://github.com/Microsoft/vcpkg.git",
                                 TargetDir >>

C2_Witness ==
    /\ startFs = "absent"
    /\ ~invocation.file.isabs
    /\ pc = "exit"
    /\ Cardinality(CallsAt(13)) = 1

\* C3: when the clone child exits non-zero, the bootstrap is never invoked
\* in that run, no later line of the script executes, and the run ends in
\* failure.
C3_CloneFailureStopsRun ==
    CloneExitedNonZero =>
        /\ CallsAt(25) = {}
        /\ pc \in {"l13_wait", "exit"}
        /\ bootstrap_script = ""
        /\ pc = "exit" => exitCode # 0

C3_Witness == CloneExitedNonZero /\ pc = "exit"

\* C4 as stated: the run exits 0 when every invoked child exits 0, and
\* otherwise with the non-zero exit code n of the child that failed.
C4_ExitCodePropagated ==
    pc = "exit" =>
        IF \A i \in DOMAIN calls : Succeeded(calls[i])
        THEN exitCode = 0
        ELSE \A i \in DOMAIN calls :
                (calls[i].status = "exited" /\ calls[i].rc > 0)
                    => exitCode = calls[i].rc

\* C4 (amended): the run exits 0 when every invoked child exits 0, and
\* otherwise with status 1, whatever the code of the child that failed.
C4_ExitCodeZeroOrOne ==
    pc = "exit" =>
        exitCode = IF \A i \in DOMAIN calls : Succeeded(calls[i])
                   THEN 0 ELSE 1

C4_Witness ==
    /\ pc = "exit"
    /\ exitCode = 1
    /\ \E i \in DOMAIN calls : calls[i].status = "exited" /\ calls[i].rc > 1

\* C5: the bootstrap entry point is <script_dir>/vcpkg/bootstrap-vcpkg.bat
\* exactly when the platform identifier is "Windows" and
\* <script_dir>/vcpkg/bootstrap-vcpkg.sh for every other identifier; no
\* identifier ends the run without a bootstrap command.
C5_PlatformBranch ==
    /\ (pc \in {"l25", "l25_wait"} \/ CallsAt(25) # {}) =>
          /\ bootstrap_script =
                IF host.system = "Windows" THEN BatPath ELSE ShPath
          /\ \A i \in CallsAt(25) : calls[i].argv[1] = bootstrap_script
    /\ (pc = "exit" /\ CallsAt(25) = {}) => CloneStepFailed

C5_Witness ==
    /\ host.system \notin {"Windows", "Linux", "Darwin"}
    /\ \E i \in CallsAt(25) : calls[i].argv[1] = ShPath

\* C6: every bootstrap invocation has exactly one argument after the
\* command, the flag -disableMetrics.
C6_DisableMetricsOnly ==
    \A i \in CallsAt(25) :
        /\ Len(calls[i].argv) = 2
        /\ calls[i].argv[1] = bootstrap_script
        /\ calls[i].argv[2] = "-disableMetrics"

C6_Witness ==
    /\ CallsAt(13) # {}
    /\ \E i \in CallsAt(25) : calls[i].status = "exited"

\* C7: within a run clone is invoked at most once, bootstrap at most once,
\* a clone has completed before the bootstrap is started, and nothing is
\* invoked after a failed child.
C7_OrderedNoRetry ==
    /\ Cardinality(CallsAt(13)) <= 1
    /\ Cardinality(CallsAt(25)) <= 1
    /\ \A i \in CallsAt(25) : \A j \in CallsAt(13) :
          j < i /\ Succeeded(calls[j])
    /\ \A i \in DOMAIN calls :
          (Failed(calls[i]) \/ calls[i].status = "running") => i = Len(calls)

C7_Witness ==
    /\ CallsAt(13) # {}
    /\ CallsAt(25) # {}
    /\ pc = "l25_wait"

\* C8: a run that does not fail at the clone step invokes the bootstrap
\* exactly once, also when the directory was already there.
C8_BootstrapExactlyOnce ==
    (pc = "exit" /\ ~CloneStepFailed) => Cardinality(CallsAt(25)) = 1

C8_Witness ==
    /\ runs >= 2
    /\ startFs = "dir"
    /\ pc = "exit"
    /\ CallsAt(13) = {}
    /\ Cardinality(CallsAt(25)) = 1

C10_PartialDirectoryKept ==
    /\ [](leftPartial => fs = "partial")
    /\ [](startFs = "partial" /\ pc = "exit" =>
              /\ CallsAt(13) = {}
              /\ Cardinality(CallsAt(25)) = 1
              /\ \A i \in CallsAt(25) : calls[i].argv[1] \in {BatPath, ShPath})
    /\ [][IsDirectory(fs) => fs' = fs]_vars

C10_Witness ==
    /\ leftPartial
    /\ runs >= 2
    /\ startFs = "partial"
    /\ pc = "exit"
    /\ CallsAt(25) # {}

=============================================================================
